---- MODULE Spec2Model ----
(***************************************************************************)
(* Model of tucan_gnn/conversion.py: conversion of a TUCAN string          *)
(* "<sum_formula>/<edge_section>/..." into graph nodes and graph edges.    *)
(*                                                                         *)
(* A Python str is a sequence of one-character strings.  A Python dict is  *)
(* a sequence of entries [k, v] with distinct keys, in insertion order     *)
(* (assigning to a key that is present keeps its position).  A call that   *)
(* raises returns [err |-> <exception name>, val |-> << >>]; a call that   *)
(* returns has err = "none".                                               *)
(***************************************************************************)
EXTENDS Integers, Sequences, FiniteSets, TLC

VARIABLES pc, fn, args, ret

vars == <<pc, fn, args, ret>>

---------------------------------------------------------------------------
(* Characters and str methods                                              *)

Digits == {"0", "1", "2", "3", "4", "5", "6", "7", "8", "9"}

Upper == {"A", "B", "C", "D", "E", "F", "G", "H", "I", "J", "K", "L", "M",
          "N", "O", "P", "Q", "R", "S", "T", "U", "V", "W", "X", "Y", "Z"}

Lower == {"a", "b", "c", "d", "e", "f", "g", "h", "i", "j", "k", "l", "m",
          "n", "o", "p", "q", "r", "s", "t", "u", "v", "w", "x", "y", "z"}

DigitVal(c) ==
  CASE c = "0" -> 0 [] c = "1" -> 1 [] c = "2" -> 2 [] c = "3" -> 3
    [] c = "4" -> 4 [] c = "5" -> 5 [] c = "6" -> 6 [] c = "7" -> 7
    [] c = "8" -> 8 [] c = "9" -> 9

Range(s) == {s[i] : i \in DOMAIN s}

Last(s) == s[Len(s)]

Ok(v) == [err |-> "none", val |-> v]

Raise(e) == [err |-> e, val |-> << >>]

\* Mutant of isalpha: str.isupper() in its place.
isalpha_as_isupper(s) == Len(s) > 0 /\ \A i \in DOMAIN s : s[i] \in Upper

\* str.isalpha(): non-empty and every character alphabetic.
isalpha(s) == Len(s) > 0 /\ \A i \in DOMAIN s : s[i] \in Upper \cup Lower

\* The value of a run of decimal digits, accumulated digit by digit.
RECURSIVE IntValue(_, _, _)
IntValue(s, i, acc) ==
  IF i > Len(s) THEN acc ELSE IntValue(s, i + 1, acc * 10 + DigitVal(s[i]))

\* Mutant of int: the empty string parses as 0.
int_empty_is_zero(s) ==
  IF \A i \in DOMAIN s : s[i] \in Digits
  THEN Ok(IntValue(s, 1, 0))
  ELSE Raise("ValueError")

\* int(s) for the strings that occur here: a non-empty run of decimal digits
\* parses, anything else (empty, letters, brackets, a lone sign) raises
\* ValueError.
int(s) ==
  IF Len(s) > 0 /\ \A i \in DOMAIN s : s[i] \in Digits
  THEN Ok(IntValue(s, 1, 0))
  ELSE Raise("ValueError")

\* s.split(sep) for a one-character separator: empty pieces are kept.
RECURSIVE SplitFrom(_, _, _, _, _)
SplitFrom(s, sep, i, cur, acc) ==
  IF i > Len(s) THEN Append(acc, cur)
  ELSE IF s[i] = sep THEN SplitFrom(s, sep, i + 1, << >>, Append(acc, cur))
  ELSE SplitFrom(s, sep, i + 1, Append(cur, s[i]), acc)

split(s, sep) == SplitFrom(s, sep, 1, << >>, << >>)

\* re.split("(\d+)", s): the pieces between maximal digit runs, with the
\* digit runs kept; the first and the last piece are non-digit pieces and
\* may be empty.
RECURSIVE ReSplitFrom(_, _, _, _, _)
ReSplitFrom(s, i, cur, inDigits, acc) ==
  IF i > Len(s)
  THEN IF inDigits THEN Append(Append(acc, cur), << >>) ELSE Append(acc, cur)
  ELSE IF (s[i] \in Digits) = inDigits
       THEN ReSplitFrom(s, i + 1, Append(cur, s[i]), inDigits, acc)
       ELSE ReSplitFrom(s, i + 1, <<s[i]>>, ~inDigits, Append(acc, cur))

re_split_digits(s) == ReSplitFrom(s, 1, << >>, FALSE, << >>)

\* re.findall('[A-Z][^A-Z]*', s): each match starts at an uppercase letter
\* and runs up to the next uppercase letter; characters before the first
\* uppercase letter belong to no match.
RECURSIVE FindallFrom(_, _, _)
FindallFrom(s, i, acc) ==
  IF i > Len(s) THEN acc
  ELSE IF s[i] \in Upper THEN FindallFrom(s, i + 1, Append(acc, <<s[i]>>))
  ELSE IF acc = << >> THEN FindallFrom(s, i + 1, acc)
  ELSE FindallFrom(s, i + 1,
         [acc EXCEPT ![Len(acc)] = Append(acc[Len(acc)], s[i])])

re_findall_capital(s) == FindallFrom(s, 1, << >>)

---------------------------------------------------------------------------
(* dict                                                                    *)

Keys(d) == {d[i].k : i \in DOMAIN d}

HasKey(d, k) == \E i \in DOMAIN d : d[i].k = k

Get(d, k) == d[CHOOSE i \in DOMAIN d : d[i].k = k].v

\* Mutant of DictSet: d[k] += v when k is present.
DictSet_adding(d, k, v) ==
  IF \E i \in DOMAIN d : d[i].k = k
  THEN [i \in DOMAIN d |-> IF d[i].k = k THEN [k |-> k, v |-> d[i].v + v] ELSE d[i]]
  ELSE Append(d, [k |-> k, v |-> v])

\* d[k] = v
DictSet(d, k, v) ==
  IF HasKey(d, k)
  THEN [i \in DOMAIN d |-> IF d[i].k = k THEN [k |-> k, v |-> v] ELSE d[i]]
  ELSE Append(d, [k |-> k, v |-> v])

---------------------------------------------------------------------------
(* element_count_from_sum_formula                                          *)

\* The for loop over split_sum_form; the state is (previous_element,
\* element_count).
RECURSIVE TokenLoop(_, _, _, _)
TokenLoop(split_sum_form, i, previous_element, element_count) ==
  IF i > Len(split_sum_form)
  THEN [err |-> "none", prev |-> previous_element, ec |-> element_count]
  ELSE
    LET substring == split_sum_form[i]
        split_by_capital_letter == re_findall_capital(substring)
        n == Len(split_by_capital_letter)
    IN IF n = 0
       THEN LET c == int(substring)
            IN IF c.err # "none"
               THEN [err |-> c.err, prev |-> previous_element,
                     ec |-> element_count]
               ELSE TokenLoop(split_sum_form, i + 1, previous_element,
                              DictSet(element_count, previous_element, c.val))
       ELSE IF n = 1
       THEN TokenLoop(split_sum_form, i + 1, split_by_capital_letter[1],
                      element_count)
       ELSE LET RECURSIVE Ones(_, _)
                Ones(j, ec) ==
                  IF j > n - 1 THEN ec
                  ELSE Ones(j + 1, DictSet(ec, split_by_capital_letter[j], 1))
            IN TokenLoop(split_sum_form, i + 1, split_by_capital_letter[n],
                         Ones(1, element_count))

element_count_from_sum_formula(sum_form) ==
  LET raw == re_split_digits(sum_form)
      split_sum_form == IF Last(raw) = << >> THEN SubSeq(raw, 1, Len(raw) - 1)
                        ELSE raw
      r == TokenLoop(split_sum_form, 1, << >>, << >>)
  IN IF r.err # "none" THEN Raise(r.err)
     ELSE IF split_sum_form = << >> THEN Raise("IndexError")
     ELSE IF isalpha(Last(split_sum_form))
          THEN Ok(DictSet(r.ec, r.prev, 1))
          ELSE Ok(r.ec)

---------------------------------------------------------------------------
(* The periodic-table lookup                                               *)

\* tucan.element_properties.element_symbols, the symbols in order of atomic
\* number; the model keeps the first seventeen (H .. Cl).
element_symbols ==
  << <<"H">>, <<"H", "e">>, <<"L", "i">>, <<"B", "e">>, <<"B">>, <<"C">>,
     <<"N">>, <<"O">>, <<"F">>, <<"N", "e">>, <<"N", "a">>, <<"M", "g">>,
     <<"A", "l">>, <<"S", "i">>, <<"P">>, <<"S">>, <<"C", "l">> >>

\* atom_number_dict[element] = i+1 for i, element in enumerate(element_symbols)
atom_number_dict ==
  [e \in Range(element_symbols) |->
     CHOOSE n \in DOMAIN element_symbols : element_symbols[n] = e]

\* number_atom_dict[i+1] = element
number_atom_dict == [n \in DOMAIN element_symbols |-> element_symbols[n]]

---------------------------------------------------------------------------
(* graph_nodes_from_element_count                                          *)

\* dict((atom_number_dict[key], value) for (key, value) in items): the
\* entries re-keyed by atomic number, in the order of element_count.
RECURSIVE ByAtomNumber(_, _, _)
ByAtomNumber(element_count, i, acc) ==
  IF i > Len(element_count) THEN acc
  ELSE ByAtomNumber(element_count, i + 1,
         DictSet(acc, atom_number_dict[element_count[i].k],
                 element_count[i].v))

\* Mutant of ItemLess: descending order.
ItemLess_descending(a, b) == a.k > b.k \/ (a.k = b.k /\ a.v > b.v)

\* sorted(d.items()): ascending by (key, value).
ItemLess(a, b) == a.k < b.k \/ (a.k = b.k /\ a.v < b.v)

\* Mutant of sorted_items: the items are left in insertion order.
sorted_items_unsorted(d) == d

sorted_items(d) == SortSeq(d, ItemLess)

\* for i in range(0, value): node_list.append(number_atom_dict[key])
\* Mutant of Copies: range(1, value).
Copies_one_short(value, element) == [i \in 1..(value - 1) |-> element]

\* (range(0, value) is empty when value <= 0)
Copies(value, element) == [i \in 1..value |-> element]

RECURSIVE NodeListFrom(_, _)
NodeListFrom(d, i) ==
  IF i > Len(d) THEN << >>
  ELSE Copies(d[i].v, number_atom_dict[d[i].k]) \o NodeListFrom(d, i + 1)

node_list_of(d) == NodeListFrom(d, 1)

\* graph_nodes[i+1] = element for i, element in enumerate(node_list)
enumerate_nodes(node_list) == [i \in 1..Len(node_list) |-> node_list[i]]

graph_nodes_from_element_count(element_count) ==
  IF \E k \in Keys(element_count) : k \notin DOMAIN atom_number_dict
  THEN Raise("KeyError")
  ELSE Ok(enumerate_nodes(node_list_of(sorted_items(
            ByAtomNumber(element_count, 1, << >>)))))

---------------------------------------------------------------------------
(* convert_graph_nodes_element_to_atomic_number                            *)

\* Mutant of convert_graph_nodes_element_to_atomic_number: the index of
\* enumerate without the + 1.
convert_zero_based(graph_nodes) ==
  [node \in DOMAIN graph_nodes |->
     (CHOOSE n \in DOMAIN element_symbols :
        element_symbols[n] = graph_nodes[node]) - 1]

\* Every value of graph_nodes comes out of number_atom_dict, so the lookup
\* cannot fail.
convert_graph_nodes_element_to_atomic_number(graph_nodes) ==
  [node \in DOMAIN graph_nodes |-> atom_number_dict[graph_nodes[node]]]

---------------------------------------------------------------------------
(* tucan_string_to_graph_nodes, tucan_string_to_graph_edges,               *)
(* tucan_string_to_graph                                                   *)

tucan_string_to_graph_nodes(tucan_string, use_element_symbols) ==
  LET sum_formula == split(tucan_string, "/")[1]
      element_counts == element_count_from_sum_formula(sum_formula)
  IN IF element_counts.err # "none" THEN element_counts
     ELSE LET graph_nodes == graph_nodes_from_element_count(element_counts.val)
          IN IF graph_nodes.err # "none" THEN graph_nodes
             ELSE IF use_element_symbols = FALSE
                  THEN Ok(convert_graph_nodes_element_to_atomic_number(
                            graph_nodes.val))
                  ELSE graph_nodes

\* tuple(int(node) for node in edge.split("-")): the first part that does
\* not parse raises.
RECURSIVE IntTuple(_, _, _)
IntTuple(parts, i, acc) ==
  IF i > Len(parts) THEN Ok(acc)
  ELSE LET n == int(parts[i])
       IN IF n.err # "none" THEN n ELSE IntTuple(parts, i + 1, Append(acc, n.val))

RECURSIVE EdgesList(_, _, _)
EdgesList(edges, i, acc) ==
  IF i > Len(edges) THEN Ok(acc)
  ELSE LET t == IntTuple(split(edges[i], "-"), 1, << >>)
       IN IF t.err # "none" THEN t ELSE EdgesList(edges, i + 1, Append(acc, t.val))

\* Mutant of drop_opening_bracket: the bracket is kept.
keep_opening_bracket(edge) == edge

\* edge[1:]
drop_opening_bracket(edge) == SubSeq(edge, 2, Len(edge))

tucan_string_to_graph_edges(tucan_string) ==
  LET sections == split(tucan_string, "/")
  IN IF Len(sections) < 2 THEN Raise("IndexError")
     ELSE LET edge_section == sections[2]
              pieces == split(edge_section, ")")
              edges_with_opening_bracket == SubSeq(pieces, 1, Len(pieces) - 1)
              edges == [i \in DOMAIN edges_with_opening_bracket |->
                          drop_opening_bracket(edges_with_opening_bracket[i])]
          IN EdgesList(edges, 1, << >>)

tucan_string_to_graph(tucan_string) ==
  LET nodes == tucan_string_to_graph_nodes(tucan_string, TRUE)
  IN IF nodes.err # "none" THEN nodes
     ELSE LET edges == tucan_string_to_graph_edges(tucan_string)
          IN IF edges.err # "none" THEN edges
             ELSE Ok([nodes |-> nodes.val, edges |-> edges.val])

---------------------------------------------------------------------------
(* Bounds and inputs                                                       *)

\* Longest sum formula drawn character by character for the tokenizer.
MaxFormLen == 5

\* Longest sum formula drawn character by character for the node functions
\* (a digit run of n characters makes up to 10^n nodes).
MaxNodeFormLen == 4

\* Most (symbol, count) pairs in a generated sum formula, and most keys in
\* an element-count mapping passed directly.
MaxPairs == 3

\* Largest single-digit count; the two-digit count 12 is always drawn too.
MaxCount == 3

\* Most bracketed segments in a generated edge section.
MaxEdges == 3

\* Longest TUCAN string drawn character by character for the edge extractor.
MaxEdgeStrLen == 4

Strings(chars, n) == UNION {[1..k -> chars] : k \in 0..n}

FormulaChars == {"C", "H", "l", "1", "2", "+"}

EdgeChars == {"/", "(", ")", "-", "1", "2"}

Counts == (1..MaxCount) \cup {12}

\* Symbols of generated formulas, in the order of a reference formula.
SymbolOrder == << <<"C">>, <<"H">>, <<"O">>, <<"C", "l">> >>

\* Keys of element-count mappings passed directly; Hl is in no table.
DictSymbols == {<<"H">>, <<"C">>, <<"C", "l">>, <<"H", "l">>}

\* A (symbol, count) pair of a sum formula; a count of 1 may be left out.
Pairs(symbols) ==
  {p \in [sym : symbols, count : Counts, implicit : BOOLEAN] :
     p.implicit => p.count = 1}

Injective(ps) == \A i, j \in DOMAIN ps : ps[i].sym = ps[j].sym => i = j

PairSeqs(symbols) == UNION {[1..k -> Pairs(symbols)] : k \in 1..MaxPairs}

\* str(n) for n >= 0
DigitChar(n) ==
  CASE n = 0 -> "0" [] n = 1 -> "1" [] n = 2 -> "2" [] n = 3 -> "3"
    [] n = 4 -> "4" [] n = 5 -> "5" [] n = 6 -> "6" [] n = 7 -> "7"
    [] n = 8 -> "8" [] n = 9 -> "9"

RECURSIVE str(_)
str(n) == IF n < 10 THEN <<DigitChar(n)>>
          ELSE str(n \div 10) \o <<DigitChar(n % 10)>>

\* The sum formula that writes the pairs ps in order.
RECURSIVE SumFormulaOf(_)
SumFormulaOf(ps) ==
  IF ps = << >> THEN << >>
  ELSE Head(ps).sym \o (IF Head(ps).implicit THEN << >> ELSE str(Head(ps).count))
       \o SumFormulaOf(Tail(ps))

SymbolIndex(sym) == CHOOSE i \in DOMAIN SymbolOrder : SymbolOrder[i] = sym

\* The same pairs in the order of SymbolOrder.
ReferenceOrder(ps) ==
  SortSeq(ps, LAMBDA a, b : SymbolIndex(a.sym) < SymbolIndex(b.sym))

\* Element-count mappings: distinct keys, counts from 0.
ElementCounts ==
  UNION {{d \in [1..n -> [k : DictSymbols, v : 0..MaxCount]] :
            \A i, j \in 1..n : d[i].k = d[j].k => i = j} : n \in 0..MaxPairs}

\* Edge segments "(n1-n2-...)" with zero to three node-ids.
NodeIds == {1, 12}

Segments == UNION {[1..a -> NodeIds] : a \in 0..3}

RECURSIVE JoinDash(_)
JoinDash(seg) ==
  IF seg = << >> THEN << >>
  ELSE IF Len(seg) = 1 THEN str(seg[1])
  ELSE str(Head(seg)) \o <<"-">> \o JoinDash(Tail(seg))

RECURSIVE EdgeSectionOf(_)
EdgeSectionOf(segs) ==
  IF segs = << >> THEN << >>
  ELSE <<"(">> \o JoinDash(Head(segs)) \o <<")">> \o EdgeSectionOf(Tail(segs))

\* What may follow the sum formula in a TUCAN string.
Tails == {<< >>, <<"/", "(", "1", "-", "2", ")">>}

---------------------------------------------------------------------------
(* Calls                                                                   *)

Init == pc = "idle" /\ fn = "none" /\ args = << >> /\ ret = Ok(<< >>)

\* A call is made once, from the idle state; no call leaves state behind.
Call(f, a, r) == pc' = "done" /\ fn' = f /\ args' = a /\ ret' = r

\* element_count_from_sum_formula on an arbitrary string.
ElementCountAny ==
  /\ pc = "idle"
  /\ \E s \in Strings(FormulaChars, MaxFormLen) :
    Call("element_count_from_sum_formula",
         [sum_form |-> s, pairs |-> << >>, written |-> FALSE],
         element_count_from_sum_formula(s))

\* element_count_from_sum_formula on a formula written from (symbol, count)
\* pairs; a symbol may occur more than once.
ElementCountWritten ==
  /\ pc = "idle"
  /\ \E ps \in PairSeqs({<<"H">>, <<"C">>, <<"C", "l">>}) :
    Call("element_count_from_sum_formula",
         [sum_form |-> SumFormulaOf(ps), pairs |-> ps, written |-> TRUE],
         element_count_from_sum_formula(SumFormulaOf(ps)))

\* graph_nodes_from_element_count on an element-count mapping.
GraphNodesFromElementCount ==
  /\ pc = "idle"
  /\ \E d \in ElementCounts :
    Call("graph_nodes_from_element_count", [element_count |-> d],
         graph_nodes_from_element_count(d))

\* tucan_string_to_graph_nodes on an arbitrary sum formula, in both modes.
TucanStringToGraphNodes ==
  /\ pc = "idle"
  /\ \E s \in Strings(FormulaChars, MaxNodeFormLen), tl \in Tails, u \in BOOLEAN :
    Call("tucan_string_to_graph_nodes",
         [tucan_string |-> s \o tl, use_element_symbols |-> u],
         tucan_string_to_graph_nodes(s \o tl, u))

\* tucan_string_to_graph_nodes on a formula of distinct symbols and on the
\* formula that writes the same pairs in the reference order.
TucanStringToGraphNodesReordered ==
  /\ pc = "idle"
  /\ \E ps \in PairSeqs(Range(SymbolOrder)) :
    /\ Injective(ps)
    /\ Call("tucan_string_to_graph_nodes twice",
            [pairs |-> ps, first |-> SumFormulaOf(ReferenceOrder(ps)),
             second |-> SumFormulaOf(ps)],
            [first |-> tucan_string_to_graph_nodes(
                         SumFormulaOf(ReferenceOrder(ps)), TRUE),
             second |-> tucan_string_to_graph_nodes(SumFormulaOf(ps), TRUE)])

\* tucan_string_to_graph on an arbitrary sum formula.
TucanStringToGraph ==
  /\ pc = "idle"
  /\ \E s \in Strings(FormulaChars, MaxNodeFormLen), tl \in Tails :
    Call("tucan_string_to_graph", [tucan_string |-> s \o tl],
         tucan_string_to_graph(s \o tl))

\* tucan_string_to_graph_edges on an edge section written from segments,
\* with or without a third section.
TucanStringToGraphEdgesWritten ==
  /\ pc = "idle"
  /\ \E segs \in UNION {[1..k -> Segments] : k \in 0..MaxEdges}, more \in BOOLEAN :
    LET s == <<"C", "H", "/">> \o EdgeSectionOf(segs)
               \o (IF more THEN <<"/", "x">> ELSE << >>)
    IN Call("tucan_string_to_graph_edges",
            [tucan_string |-> s, segments |-> segs, written |-> TRUE],
            tucan_string_to_graph_edges(s))

\* tucan_string_to_graph_edges on an arbitrary string.
TucanStringToGraphEdgesAny ==
  /\ pc = "idle"
  /\ \E s \in Strings(EdgeChars, MaxEdgeStrLen) :
    Call("tucan_string_to_graph_edges",
         [tucan_string |-> s, segments |-> << >>, written |-> FALSE],
         tucan_string_to_graph_edges(s))

NextTokenizer == ElementCountAny \/ ElementCountWritten

NextNodes ==
  \/ GraphNodesFromElementCount
  \/ TucanStringToGraphNodes
  \/ TucanStringToGraphNodesReordered
  \/ TucanStringToGraph

NextEdges == TucanStringToGraphEdgesWritten \/ TucanStringToGraphEdgesAny

Next == NextTokenizer \/ NextNodes \/ NextEdges

Spec == Init /\ [][Next]_vars

SpecTokenizer == Init /\ [][NextTokenizer]_vars

SpecNodes == Init /\ [][NextNodes]_vars

SpecEdges == Init /\ [][NextEdges]_vars

---------------------------------------------------------------------------
(* Properties                                                              *)

Returned(f) == pc = "done" /\ fn = f /\ ret.err = "none"

RECURSIVE SumOfCounts(_)
SumOfCounts(d) == IF d = << >> THEN 0 ELSE Head(d).v + SumOfCounts(Tail(d))

NodesOf(graph_nodes, element) ==
  {n \in DOMAIN graph_nodes : graph_nodes[n] = element}

KnownKeys(d) == Keys(d) \subseteq DOMAIN atom_number_dict

\* C1: for an element-count mapping whose keys are all in the lookup,
\* graph_nodes_from_element_count returns, and the returned nodes are in
\* order of atomic number: node-ids i < j never carry a higher atomic number
\* at i than at j, and every node-id of a lower-atomic-number element is
\* below every node-id of a higher-atomic-number element.
C1_NodesOrderedByAtomicNumber ==
  (pc = "done" /\ fn = "graph_nodes_from_element_count"
     /\ KnownKeys(args.element_count))
  => /\ ret.err = "none"
     /\ \A i, j \in DOMAIN ret.val :
          /\ i < j => atom_number_dict[ret.val[i]] <= atom_number_dict[ret.val[j]]
          /\ atom_number_dict[ret.val[i]] < atom_number_dict[ret.val[j]] => i < j

\* The mapping {Cl: 1, H: 2, C: 1}, inserted against the order of atomic
\* number, has been numbered H, H, C, Cl.
C1_Witness ==
  /\ pc = "done" /\ fn = "graph_nodes_from_element_count"
  /\ args.element_count = << [k |-> <<"C", "l">>, v |-> 1],
                             [k |-> <<"H">>, v |-> 2],
                             [k |-> <<"C">>, v |-> 1] >>
  /\ ret = Ok(<< <<"H">>, <<"H">>, <<"C">>, <<"C", "l">> >>)

\* C2: for an element-count mapping with known symbols, the node-ids
\* returned by graph_nodes_from_element_count are exactly 1..N with N the
\* sum of the counts, and each symbol e is the value of exactly count(e)
\* nodes.
C2_NodeCountIsSumOfCounts ==
  (pc = "done" /\ fn = "graph_nodes_from_element_count"
     /\ KnownKeys(args.element_count))
  => /\ ret.err = "none"
     /\ DOMAIN ret.val = 1..SumOfCounts(args.element_count)
     /\ \A i \in DOMAIN args.element_count :
          Cardinality(NodesOf(ret.val, args.element_count[i].k))
            = args.element_count[i].v

\* {C: 2, H: 1, Cl: 2} has produced five nodes, two of them C.
C2_Witness ==
  /\ Returned("graph_nodes_from_element_count")
  /\ args.element_count = << [k |-> <<"C">>, v |-> 2],
                             [k |-> <<"H">>, v |-> 1],
                             [k |-> <<"C", "l">>, v |-> 2] >>
  /\ DOMAIN ret.val = 1..5
  /\ NodesOf(ret.val, <<"C">>) = {2, 3}

\* C3: two sum formulas that write the same (symbol, count) pairs with
\* distinct symbols in different orders get identical node mappings from
\* tucan_string_to_graph_nodes.  Every order is compared with the reference
\* order of the same pairs, so any two orders agree with each other.
C3_NumberingInvariantUnderReordering ==
  (pc = "done" /\ fn = "tucan_string_to_graph_nodes twice")
  => /\ ret.first.err = "none"
     /\ ret.second.err = "none"
     /\ ret.first.val = ret.second.val

\* "C2H12O" and "H12OC2" have both been converted, to 15 nodes.
C3_Witness ==
  /\ pc = "done" /\ fn = "tucan_string_to_graph_nodes twice"
  /\ args.first = <<"C", "2", "H", "1", "2", "O">>
  /\ args.second = <<"H", "1", "2", "O", "C", "2">>
  /\ Len(ret.second.val) = 15
  /\ ret.second.val[13] = <<"C">>

SymbolsOf(ps) == {ps[i].sym : i \in DOMAIN ps}

\* C4: for a sum formula written from pairs with distinct symbols (each an
\* uppercase letter and at most one lowercase letter, the count written as
\* a positive decimal or left out), element_count_from_sum_formula returns
\* a mapping whose keys are exactly the symbols written; a symbol followed
\* by digits maps to that number, a symbol without digits maps to 1.
C4_WellFormedFormulaCounts ==
  (pc = "done" /\ fn = "element_count_from_sum_formula" /\ args.written
     /\ Injective(args.pairs))
  => /\ ret.err = "none"
     /\ Keys(ret.val) = SymbolsOf(args.pairs)
     /\ \A i \in DOMAIN args.pairs :
          Get(ret.val, args.pairs[i].sym)
            = (IF args.pairs[i].implicit THEN 1 ELSE args.pairs[i].count)

\* "ClH12C": Cl inside a multi-symbol token, H with a two-digit count, C at
\* the end of the string.
C4_Witness ==
  /\ Returned("element_count_from_sum_formula") /\ args.written
  /\ args.sum_form = <<"C", "l", "H", "1", "2", "C">>
  /\ Get(ret.val, <<"C", "l">>) = 1
  /\ Get(ret.val, <<"H">>) = 12
  /\ Get(ret.val, <<"C">>) = 1

\* C5: for an edge section that is a concatenation of k bracketed pairs
\* "(a-b)", tucan_string_to_graph_edges returns exactly k pairs, the i-th
\* being (a_i, b_i) of the i-th bracketed pair, endpoints in input order.
C5_EdgesInInputOrder ==
  (pc = "done" /\ fn = "tucan_string_to_graph_edges" /\ args.written
     /\ \A i \in DOMAIN args.segments : Len(args.segments[i]) = 2)
  => /\ ret.err = "none"
     /\ Len(ret.val) = Len(args.segments)
     /\ \A i \in DOMAIN args.segments :
          ret.val[i] = <<args.segments[i][1], args.segments[i][2]>>

\* "CH/(1-12)(12-1)(1-1)/x" has returned three pairs.
C5_Witness ==
  /\ Returned("tucan_string_to_graph_edges") /\ args.written
  /\ args.segments = << <<1, 12>>, <<12, 1>>, <<1, 1>> >>
  /\ Len(args.tucan_string) = 22
  /\ ret.val = << <<1, 12>>, <<12, 1>>, <<1, 1>> >>

\* The symbols that element_count_from_sum_formula segments from a sum
\* formula: the capital-letter-initiated pieces of its non-digit tokens.
SegmentedSymbols(sum_formula) ==
  LET toks == re_split_digits(sum_formula)
  IN UNION {Range(re_findall_capital(toks[i])) : i \in DOMAIN toks}

\* C6: when a symbol segmented from the sum formula is not in the lookup
\* table, tucan_string_to_graph_nodes and tucan_string_to_graph raise and
\* return no node mapping.
C6_UnknownSymbolRaises ==
  (pc = "done"
     /\ fn \in {"tucan_string_to_graph_nodes", "tucan_string_to_graph"}
     /\ \E sym \in SegmentedSymbols(split(args.tucan_string, "/")[1]) :
          sym \notin DOMAIN atom_number_dict)
  => ret.err # "none"

\* C7: an edge segment that does not split into exactly two integers on
\* "-" makes tucan_string_to_graph_edges raise; no tuple of another length
\* is returned.
C7_MalformedSegmentRaises ==
  (pc = "done" /\ fn = "tucan_string_to_graph_edges" /\ args.written
     /\ \E i \in DOMAIN args.segments : Len(args.segments[i]) # 2)
  => ret.err # "none"

\* A digit occurs in s and no uppercase letter occurs before the first one.
DigitRunWithoutElement(s) ==
  \E i \in DOMAIN s :
    /\ s[i] \in Digits
    /\ \A j \in 1..(i - 1) : s[j] \notin Upper \cup Digits

\* C8: a sum formula whose first digit run has no element symbol before it
\* makes element_count_from_sum_formula raise, and no returned mapping has
\* the empty string as a key.
C8_NoEmptyKey ==
  (pc = "done" /\ fn = "element_count_from_sum_formula")
  => /\ DigitRunWithoutElement(args.sum_form) => ret.err # "none"
     /\ ret.err = "none" => << >> \notin Keys(ret.val)

\* "l2C": the digit run follows a token without an uppercase letter.
C8_Witness ==
  /\ pc = "done" /\ fn = "element_count_from_sum_formula"
  /\ args.sum_form = <<"l", "2", "C">>
  /\ ret.err = "ValueError"

\* C9: with use_element_symbols = False the node-ids are those of the
\* default mode and each value is the atomic number of the symbol the
\* default mode gives that node (number_atom_dict maps it back); with the
\* default argument the values are element symbols.
C9_AtomicNumberMode ==
  Returned("tucan_string_to_graph_nodes")
  => IF args.use_element_symbols
     THEN \A n \in DOMAIN ret.val : ret.val[n] \in Range(element_symbols)
     ELSE LET symbols == tucan_string_to_graph_nodes(args.tucan_string, TRUE)
          IN /\ symbols.err = "none"
             /\ DOMAIN ret.val = DOMAIN symbols.val
             /\ \A n \in DOMAIN ret.val :
                  /\ ret.val[n] = atom_number_dict[symbols.val[n]]
                  /\ number_atom_dict[ret.val[n]] = symbols.val[n]

\* "ClH2" in atomic-number mode has returned 1, 1, 17.
C9_Witness ==
  /\ Returned("tucan_string_to_graph_nodes")
  /\ ~args.use_element_symbols
  /\ args.tucan_string = <<"C", "l", "H", "2">>
  /\ ret.val = <<1, 1, 17>>

LastOccurrence(ps, sym) ==
  CHOOSE i \in DOMAIN ps :
    ps[i].sym = sym /\ \A j \in DOMAIN ps : ps[j].sym = sym => j <= i

\* C10: when a symbol is written more than once in a sum formula, the
\* occurrences are not added: element_count_from_sum_formula returns for
\* each symbol the count of its last occurrence.
C10_LastOccurrenceWins ==
  (pc = "done" /\ fn = "element_count_from_sum_formula" /\ args.written)
  => /\ ret.err = "none"
     /\ Keys(ret.val) = SymbolsOf(args.pairs)
     /\ \A sym \in SymbolsOf(args.pairs) :
          Get(ret.val, sym) = args.pairs[LastOccurrence(args.pairs, sym)].count

RECURSIVE AtomsWritten(_)
AtomsWritten(ps) ==
  IF ps = << >> THEN 0 ELSE Head(ps).count + AtomsWritten(Tail(ps))

\* "C2HC" writes four atoms and has returned {C: 1, H: 1}.
C10_Witness ==
  /\ Returned("element_count_from_sum_formula") /\ args.written
  /\ args.sum_form = <<"C", "2", "H", "C">>
  /\ ~Injective(args.pairs)
  /\ AtomsWritten(args.pairs) = 4
  /\ Get(ret.val, <<"C">>) = 1
  /\ SumOfCounts(ret.val) = 2
====
